---- MODULE Spec2Model ----
(***************************************************************************)
(* Model of the resilient invocation orchestrator of map-me-search:        *)
(* the error classifier, the backoff retry executor                        *)
(* (_run_runner_collect_final_text), the model fallback cascade, session   *)
(* resolution and the search_places entry points.                          *)
(***************************************************************************)
EXTENDS Integers, Sequences, FiniteSets, TLC

(***************************************************************************)
(* Bounds of the model.                                                    *)
(***************************************************************************)
MaxAttemptsBound == 3
MaxEvents == 2
MaxRequests == 2

(***************************************************************************)
(* Failures.  An exception is its type, its status_code attribute and its  *)
(* message; the message is the set of fragments it is made of, with their  *)
(* original letter case.                                                   *)
(***************************************************************************)
NoStatus == 0

MsgTokens ==
    {"429", "503", "RESOURCE_EXHAUSTED", "Quota", "UNAVAILABLE", "overloaded",
     "The model is overloaded", "permission denied"}

ExcTypes == {"ServerError", "Exception"}

StatusCodes == {NoStatus, 500, 503}

\* str.lower() on one fragment of a message
LowerTok(t) ==
    CASE t = "RESOURCE_EXHAUSTED" -> "resource_exhausted"
      [] t = "Quota" -> "quota"
      [] t = "UNAVAILABLE" -> "unavailable"
      [] t = "The model is overloaded" -> "the model is overloaded"
      [] OTHER -> t

\* msg = str(exc).lower()
StrLower(exc) == {LowerTok(t) : t \in exc.msg}

\* the marker substrings a lower-cased fragment contains
Fragments(t) ==
    IF t = "the model is overloaded" THEN {"the model is overloaded", "overloaded"}
    ELSE {t}

\* needle in msg
In(needle, msg) == \E t \in msg : needle \in Fragments(t)

_is_quota_exhausted_error(exc) ==
    LET msg == StrLower(exc)
    IN  In("429", msg) /\ (In("resource_exhausted", msg) \/ In("quota", msg))

\* _is_transient_model_error without the test of lines 54-55
IsTransientNoOverloadedTest(genai, exc) ==
    \/ genai /\ exc.type = "ServerError" /\ exc.status_code = 503
    \/ LET msg == StrLower(exc)
       IN  \/ In("503", msg) /\ (In("overloaded", msg) \/ In("unavailable", msg))
           \/ In("429", msg) /\ (In("resource_exhausted", msg) \/ In("quota", msg))

_is_transient_model_error(genai, exc) ==
    \/ genai /\ exc.type = "ServerError" /\ exc.status_code = 503
    \/ LET msg == StrLower(exc)
       IN  \/ In("503", msg) /\ (In("overloaded", msg) \/ In("unavailable", msg))
           \/ In("the model is overloaded", msg)
           \/ In("429", msg) /\ (In("resource_exhausted", msg) \/ In("quota", msg))

\* the three-way decision the except handler of the executor takes
HandlerClass(genai, exc) ==
    IF _is_quota_exhausted_error(exc) THEN "QuotaExhausted"
    ELSE IF _is_transient_model_error(genai, exc) THEN "TransientRetryable"
    ELSE "Fatal"

Exc(t, s, m) == [type |-> t, status_code |-> s, msg |-> m]

NoExc == Exc("None", NoStatus, {})

\* what an on_retry callback that fails raises
ObserverError == Exc("ObserverError", NoStatus, {"observer failed"})

AllExcs == {Exc(t, s, m) : t \in ExcTypes, s \in StatusCodes, m \in SUBSET MsgTokens}

\* the failures the remote call raises in the executor's specification
CallFailures ==
    { Exc("Exception", NoStatus, {"429", "RESOURCE_EXHAUSTED"}),
      Exc("ServerError", 503, {"429", "Quota", "503", "overloaded"}),
      Exc("Exception", NoStatus, {"503", "UNAVAILABLE"}),
      Exc("ServerError", 503, {}),
      Exc("Exception", NoStatus, {"permission denied"}) }

(***************************************************************************)
(* Configuration strings are sequences of atoms; " " is a blank.           *)
(***************************************************************************)
DefaultPrimary == <<"gemini-2.5-flash">>
DefaultFallback == <<"gemini-2.5-flash-lite">>

Unset == [set |-> FALSE, val |-> <<>>]
EnvVal(s) == [set |-> TRUE, val |-> s]

\* os.environ.get(name, default)
EnvGet(e, default) == IF e.set THEN e.val ELSE default

RECURSIVE LStrip(_)
LStrip(s) == IF s # <<>> /\ Head(s) = " " THEN LStrip(Tail(s)) ELSE s

RECURSIVE RStrip(_)
RStrip(s) ==
    IF s # <<>> /\ s[Len(s)] = " " THEN RStrip(SubSeq(s, 1, Len(s) - 1)) ELSE s

\* str.strip()
Strip(s) == RStrip(LStrip(s))

\* x in list
InList(x, l) == \E i \in 1..Len(l) : l[i] = x

\* _get_model_candidates without the test "fallback not in candidates"
GetModelCandidatesNoDedup(envPrimary, envFallback) ==
    LET primary == Strip(EnvGet(envPrimary, DefaultPrimary))
        fallback == Strip(EnvGet(envFallback, DefaultFallback))
        cands == IF primary # <<>> THEN <<primary>> ELSE <<DefaultPrimary>>
    IN  IF fallback # <<>> THEN Append(cands, fallback) ELSE cands

\* _get_model_candidates putting the fallback in front of the primary
GetModelCandidatesFallbackFirst(envPrimary, envFallback) ==
    LET primary == Strip(EnvGet(envPrimary, DefaultPrimary))
        fallback == Strip(EnvGet(envFallback, DefaultFallback))
        cands == IF primary # <<>> THEN <<primary>> ELSE <<DefaultPrimary>>
    IN  IF fallback # <<>> /\ ~InList(fallback, cands)
        THEN <<fallback>> \o cands ELSE cands

_get_model_candidates(envPrimary, envFallback) ==
    LET primary == Strip(EnvGet(envPrimary, DefaultPrimary))
        fallback == Strip(EnvGet(envFallback, DefaultFallback))
        cands == IF primary # <<>> THEN <<primary>> ELSE <<DefaultPrimary>>
    IN  IF fallback # <<>> /\ ~InList(fallback, cands)
        THEN Append(cands, fallback) ELSE cands

\* the environments of the executor's specification
PrimaryEnvs == {EnvVal(<<" ", "m1", " ">>)}
FallbackEnvs == {EnvVal(<<"m2">>), EnvVal(<<"m1">>)}

(***************************************************************************)
(* Events of the stream runner.run_async yields.                           *)
(***************************************************************************)
Event(f, p, t) == [final |-> f, parts |-> p, text |-> t]

StreamEvents ==
    { Event(TRUE, TRUE, "A"), Event(TRUE, TRUE, "B"), Event(TRUE, TRUE, ""),
      Event(TRUE, TRUE, "None"), Event(FALSE, TRUE, "B"), Event(TRUE, FALSE, "A") }

\* the body of the async for taking the text of every final event with parts
CollectTextAnyFinal(final_text_now, ev) ==
    IF ev.final /\ ev.parts THEN ev.text ELSE final_text_now

\* the body of the async for: the text an event leaves in final_text
CollectText(final_text_now, ev) ==
    IF ev.final /\ ev.parts /\ ev.text # "" /\ ev.text # "None"
    THEN ev.text ELSE final_text_now

(***************************************************************************)
(* State.                                                                  *)
(***************************************************************************)
VARIABLES
    genai_errors,     \* TRUE iff google.genai.errors could be imported
    max_attempts, initial_delay_s, backoff_factor, on_retry,
    env_primary, env_fallback,
    candidates, ci,   \* the cascade: candidate list, index of the current one
    pc,               \* position of the request
    attempt, delay, last_exc, final_text,
    events,           \* number of events consumed in the current attempt
    keep_seen,        \* TRUE iff the specification keeps the history seen
    seen,             \* history: the events consumed in the current attempt
    discarded,        \* history: texts of failed attempts that the next attempt reset
    cancelled,        \* history: the caller cancelled the run
    invoked,          \* history: <<[model, attempt]>> of every runner.run_async
    outcomes,         \* history: outcome of every finished attempt
    run_base,         \* Len(invoked) when the current executor run began
    run_sleeps,       \* history: delays slept in the current executor run
    run_notes,        \* history: on_retry calls of the current executor run
    exec_result,      \* what the current executor run returned or raised
    result,           \* what the cascade returned or raised
    cls_exc,          \* classifier: the failure handed to the two predicates
    cls_quota,        \* classifier: what _is_quota_exhausted_error returned
    cls_transient,    \* classifier: what _is_transient_model_error returned
    cls_pc,           \* classifier: "input" before the calls, "classified" after
    db,               \* sessions of the durable store (sqlite file): survives requests
    mem,              \* sessions of the request's InMemorySessionService
    used_uuids,       \* values uuid.uuid4() has returned
    req_no,           \* number of requests begun
    entry,            \* entry point of the request: "core", "main" or "agent"
    s_pc,             \* position of the request
    user_id, topic,
    session_service,  \* "database" or "memory" ("none" before initialize_services)
    using_database, db_error,
    session_id,
    existed,          \* history: the session was in the store when create was called
    session,          \* the session create_session or get_session returned
    created_new,      \* second component of create_or_retrieve_session's result
    get_called,       \* history: get_session was called in this request
    store_fault,      \* history: the store failed on a call of this request
    create_exc,       \* history: what create_session raised in this request
    get_exc,          \* history: what get_session raised in this request
    model_failure,    \* history: what runner.run_async raised in this request
    sp_final_text,
    sp_events,        \* number of events search_places has consumed
    memory_saved,     \* "no", "saved" or "failed": add_session_to_memory
    s_result,         \* what the request returned or raised
    handles,          \* history: one record per finished request
    call_pc,          \* a function called on its own: "input", then "returned"
    call_in,          \* the arguments of the call
    call_out,         \* what the call returned
    agent_count, agent_start_times,   \* MetricsTrackingPlugin
    agents_running,   \* history: the agents that started and have not completed
    agent_starts      \* history: number of before_agent_callback calls

retryVars ==
    <<genai_errors, max_attempts, initial_delay_s, backoff_factor, on_retry,
      env_primary, env_fallback, candidates, ci, pc, attempt, delay, last_exc,
      final_text, events, keep_seen, seen, discarded, cancelled, invoked,
      outcomes, run_base,
      run_sleeps, run_notes, exec_result, result>>

classVars == <<cls_exc, cls_quota, cls_transient, cls_pc>>

sessVars ==
    <<db, mem, used_uuids, req_no, entry, s_pc, user_id, topic, session_service,
      using_database, db_error, session_id, existed, session, created_new,
      get_called, store_fault, create_exc, get_exc, model_failure,
      sp_final_text, sp_events, memory_saved, s_result, handles>>

callVars == <<call_pc, call_in, call_out>>

metricVars == <<agent_count, agent_start_times, agents_running, agent_starts>>

vars == <<retryVars, classVars, sessVars, callVars, metricVars>>

NoResult == [kind |-> "none", text |-> "", exc |-> NoExc]
Returned(t) == [kind |-> "returned", text |-> t, exc |-> NoExc]
Raised(e) == [kind |-> "raised", text |-> "", exc |-> e]

OutcomeOk(m, t) == [model |-> m, ok |-> TRUE, text |-> t, exc |-> NoExc]
OutcomeFail(m, e) == [model |-> m, ok |-> FALSE, text |-> "", exc |-> e]

InitialDelays == {1, 2}
BackoffFactors == {1, 3}

(***************************************************************************)
(* Sessions.  Identifiers are strings: sequences of atoms.                 *)
(***************************************************************************)
AppName == <<"PlacesSearchApp">>

NoTopic == [given |-> FALSE, val |-> <<>>]
TopicOf(s) == [given |-> TRUE, val |-> s]

\* truthiness of an Optional[str]
Truthy(t) == t.given /\ t.val # <<>>

Uuids == {"uuid1", "uuid2", "uuid3"}

UserIds == {<<"u1">>, <<"u2">>}
Topics == {NoTopic, TopicOf(<<>>), TopicOf(<<"trip">>), TopicOf(<<"work">>)}

NoSession == [app |-> <<>>, user |-> <<>>, id |-> <<>>]
SessionKey(a, u, i) == [app |-> a, user |-> u, id |-> i]

\* generate_session_id without the uuid in the topic-less identifier
GenerateSessionIdNoUuid(u, t, uuid) ==
    IF Truthy(t) THEN u \o <<"::">> \o t.val
    ELSE u \o <<"::", "temp", "::">>

\* generate_session_id with a random identifier whatever the topic
GenerateSessionIdAlwaysRandom(u, t, uuid) ==
    u \o <<"::", "temp", "::", uuid>>

\* uuid is the value uuid.uuid4() returns in this call
generate_session_id(u, t, uuid) ==
    IF Truthy(t) THEN u \o <<"::">> \o t.val
    ELSE u \o <<"::", "temp", "::", uuid>>

RecoverableClasses == {"ValueError", "RuntimeError", "ConnectionError"}

\* the error create_session raises for a session id that exists already
AlreadyExistsError == Exc("ValueError", NoStatus, {"already exists"})
\* failures of a durable store that lost its connection or broke
StoreFaults ==
    { Exc("ConnectionError", NoStatus, {"connection lost"}),
      Exc("OperationalError", NoStatus, {"database is locked"}) }

SessIdle ==
    /\ db = {}
    /\ mem = {}
    /\ used_uuids = {}
    /\ req_no = 0
    /\ entry = "none"
    /\ s_pc = "off"
    /\ user_id = <<>>
    /\ topic = NoTopic
    /\ session_service = "none"
    /\ using_database = FALSE
    /\ db_error = NoExc
    /\ session_id = <<>>
    /\ existed = FALSE
    /\ session = NoSession
    /\ created_new = FALSE
    /\ get_called = FALSE
    /\ store_fault = FALSE
    /\ create_exc = NoExc
    /\ get_exc = NoExc
    /\ model_failure = NoExc
    /\ sp_final_text = ""
    /\ sp_events = 0
    /\ memory_saved = "no"
    /\ s_result = NoResult
    /\ handles = <<>>

MetricsIdle ==
    /\ agent_count = 0
    /\ agent_start_times = {}
    /\ agents_running = <<>>
    /\ agent_starts = 0

CallIdle ==
    /\ call_pc = "off"
    /\ call_in = <<>>
    /\ call_out = <<>>

ClassIdle ==
    /\ cls_exc = NoExc
    /\ cls_quota = FALSE
    /\ cls_transient = FALSE
    /\ cls_pc = "off"

RetryInit ==
    /\ ClassIdle
    /\ SessIdle
    /\ MetricsIdle
    /\ CallIdle
    /\ genai_errors \in BOOLEAN
    /\ max_attempts \in 1..MaxAttemptsBound
    /\ initial_delay_s \in InitialDelays
    /\ backoff_factor \in BackoffFactors
    /\ on_retry \in {"none", "callback"}
    /\ env_primary \in PrimaryEnvs
    /\ env_fallback \in FallbackEnvs
    /\ candidates = _get_model_candidates(env_primary, env_fallback)
    /\ ci = 1
    /\ pc = "start"
    /\ attempt = 0
    /\ delay = 0
    /\ last_exc = NoExc
    /\ final_text = ""
    /\ events = 0
    /\ keep_seen = FALSE
    /\ seen = <<>>
    /\ discarded = <<>>
    /\ cancelled = FALSE
    /\ invoked = <<>>
    /\ outcomes = <<>>
    /\ run_base = 0
    /\ run_sleeps = <<>>
    /\ run_notes = <<>>
    /\ exec_result = NoResult
    /\ result = NoResult

configVars ==
    <<genai_errors, max_attempts, initial_delay_s, backoff_factor, on_retry,
      env_primary, env_fallback, candidates, keep_seen, cancelled, classVars,
      sessVars, callVars, metricVars>>

(***************************************************************************)
(* The retry executor, _run_runner_collect_final_text.                     *)
(***************************************************************************)
\* ExecEnter going on with the attempt count and delay of the run before
ExecEnterKeepsBudget ==
    /\ pc = "start"
    /\ attempt' = IF ci = 1 THEN 0 ELSE attempt
    /\ delay' = IF ci = 1 THEN initial_delay_s ELSE delay
    /\ last_exc' = NoExc
    /\ final_text' = ""
    /\ events' = 0
    /\ seen' = <<>>
    /\ discarded' = <<>>
    /\ run_base' = Len(invoked)
    /\ run_sleeps' = <<>>
    /\ run_notes' = <<>>
    /\ exec_result' = NoResult
    /\ pc' = "loop"
    /\ UNCHANGED <<configVars, ci, invoked, outcomes, result>>

\* entry: attempt = 0, delay = initial_delay_s, last_exc = None
ExecEnter ==
    /\ pc = "start"
    /\ attempt' = 0
    /\ delay' = initial_delay_s
    /\ last_exc' = NoExc
    /\ final_text' = ""
    /\ events' = 0
    /\ seen' = <<>>
    /\ discarded' = <<>>
    /\ run_base' = Len(invoked)
    /\ run_sleeps' = <<>>
    /\ run_notes' = <<>>
    /\ exec_result' = NoResult
    /\ pc' = "loop"
    /\ UNCHANGED <<configVars, ci, invoked, outcomes, result>>

\* WhileTest without final_text = "" at the start of the attempt
WhileTestKeepsText ==
    /\ pc = "loop"
    /\ IF attempt < max_attempts
       THEN /\ attempt' = attempt + 1
            /\ events' = 0
            /\ seen' = <<>>
            /\ invoked' = Append(invoked, [model |-> candidates[ci], attempt |-> attempt + 1])
            /\ pc' = "running"
            /\ UNCHANGED <<exec_result, final_text, discarded>>
       ELSE /\ exec_result' = IF last_exc # NoExc THEN Raised(last_exc) ELSE Returned("")
            /\ pc' = IF last_exc # NoExc THEN "exec_raised" ELSE "exec_returned"
            /\ UNCHANGED <<attempt, final_text, events, seen, discarded, invoked>>
    /\ UNCHANGED <<configVars, ci, delay, last_exc, outcomes, run_base, run_sleeps,
                   run_notes, result>>

\* while attempt < max_attempts: attempt += 1; final_text = ""; run_async(...)
\* and, when the loop is left, raise last_exc or return ""
WhileTest ==
    /\ pc = "loop"
    /\ IF attempt < max_attempts
       THEN /\ attempt' = attempt + 1
            /\ final_text' = ""
            /\ events' = 0
            /\ seen' = <<>>
            /\ discarded' = IF keep_seen /\ final_text # ""
                            THEN Append(discarded, final_text) ELSE discarded
            /\ invoked' = Append(invoked, [model |-> candidates[ci], attempt |-> attempt + 1])
            /\ pc' = "running"
            /\ UNCHANGED exec_result
       ELSE /\ exec_result' = IF last_exc # NoExc THEN Raised(last_exc) ELSE Returned("")
            /\ pc' = IF last_exc # NoExc THEN "exec_raised" ELSE "exec_returned"
            /\ UNCHANGED <<attempt, final_text, events, seen, discarded, invoked>>
    /\ UNCHANGED <<configVars, ci, delay, last_exc, outcomes, run_base, run_sleeps,
                   run_notes, result>>

\* one iteration of the async for
ConsumeEvent(ev) ==
    /\ pc = "running"
    /\ events < MaxEvents
    /\ final_text' = CollectText(final_text, ev)
    /\ events' = events + 1
    /\ seen' = IF keep_seen THEN Append(seen, ev) ELSE seen
    /\ UNCHANGED <<configVars, ci, pc, attempt, delay, last_exc, discarded, invoked, outcomes,
                   run_base, run_sleeps, run_notes, exec_result, result>>

\* the stream ends: return final_text
ReturnFinalText ==
    /\ pc = "running"
    /\ outcomes' = Append(outcomes, OutcomeOk(candidates[ci], final_text))
    /\ exec_result' = Returned(final_text)
    /\ pc' = "exec_returned"
    /\ UNCHANGED <<configVars, ci, attempt, delay, last_exc, final_text, events, seen, discarded,
                   invoked, run_base, run_sleeps, run_notes, result>>

\* ExceptHandler without the quota check of lines 107-108
ExceptHandlerNoQuotaCheck(e) ==
    /\ pc = "running"
    /\ last_exc' = e
    /\ outcomes' = Append(outcomes, OutcomeFail(candidates[ci], e))
    /\ IF ~_is_transient_model_error(genai_errors, e) \/ attempt >= max_attempts
       THEN /\ exec_result' = Raised(e)
            /\ pc' = "exec_raised"
            /\ UNCHANGED <<run_sleeps, run_notes>>
       ELSE /\ run_notes' = IF on_retry # "none"
                            THEN Append(run_notes, <<attempt, max_attempts, delay>>)
                            ELSE run_notes
            /\ run_sleeps' = Append(run_sleeps, delay)
            /\ pc' = "sleeping"
            /\ UNCHANGED exec_result
    /\ UNCHANGED <<configVars, ci, attempt, delay, final_text, events, seen, discarded, invoked,
                   run_base, result>>

\* ExceptHandler retrying every failure that is not quota-exhausted
ExceptHandlerRetriesFatal(e) ==
    /\ pc = "running"
    /\ last_exc' = e
    /\ outcomes' = Append(outcomes, OutcomeFail(candidates[ci], e))
    /\ IF _is_quota_exhausted_error(e) \/ attempt >= max_attempts
       THEN /\ exec_result' = Raised(e)
            /\ pc' = "exec_raised"
            /\ UNCHANGED <<run_sleeps, run_notes>>
       ELSE /\ run_notes' = IF on_retry # "none"
                            THEN Append(run_notes, <<attempt, max_attempts, delay>>)
                            ELSE run_notes
            /\ run_sleeps' = Append(run_sleeps, delay)
            /\ pc' = "sleeping"
            /\ UNCHANGED exec_result
    /\ UNCHANGED <<configVars, ci, attempt, delay, final_text, events, seen, discarded, invoked,
                   run_base, result>>

\* ExceptHandler with the sleep inside the "if on_retry is not None" block
ExceptHandlerSleepInsideIf(e) ==
    /\ pc = "running"
    /\ last_exc' = e
    /\ outcomes' = Append(outcomes, OutcomeFail(candidates[ci], e))
    /\ IF _is_quota_exhausted_error(e)
       THEN /\ exec_result' = Raised(e)
            /\ pc' = "exec_raised"
            /\ UNCHANGED <<run_sleeps, run_notes>>
       ELSE IF ~_is_transient_model_error(genai_errors, e) \/ attempt >= max_attempts
       THEN /\ exec_result' = Raised(e)
            /\ pc' = "exec_raised"
            /\ UNCHANGED <<run_sleeps, run_notes>>
       ELSE /\ run_notes' = IF on_retry # "none"
                            THEN Append(run_notes, <<attempt, max_attempts, delay>>)
                            ELSE run_notes
            /\ run_sleeps' = IF on_retry # "none" THEN Append(run_sleeps, delay)
                             ELSE run_sleeps
            /\ pc' = "sleeping"
            /\ UNCHANGED exec_result
    /\ UNCHANGED <<configVars, ci, attempt, delay, final_text, events, seen, discarded, invoked,
                   run_base, result>>

\* ExceptHandler raising a generic wrapper instead of the quota failure itself
ExceptHandlerWrapsQuota(e) ==
    /\ pc = "running"
    /\ last_exc' = e
    /\ outcomes' = Append(outcomes, OutcomeFail(candidates[ci], e))
    /\ IF _is_quota_exhausted_error(e)
       THEN /\ exec_result' = Raised(Exc("Exception", NoStatus, {"permission denied"}))
            /\ pc' = "exec_raised"
            /\ UNCHANGED <<run_sleeps, run_notes>>
       ELSE IF ~_is_transient_model_error(genai_errors, e) \/ attempt >= max_attempts
       THEN /\ exec_result' = Raised(e)
            /\ pc' = "exec_raised"
            /\ UNCHANGED <<run_sleeps, run_notes>>
       ELSE /\ run_notes' = IF on_retry # "none"
                            THEN Append(run_notes, <<attempt, max_attempts, delay>>)
                            ELSE run_notes
            /\ run_sleeps' = Append(run_sleeps, delay)
            /\ pc' = "sleeping"
            /\ UNCHANGED exec_result
    /\ UNCHANGED <<configVars, ci, attempt, delay, final_text, events, seen, discarded, invoked,
                   run_base, result>>

\* ExceptHandler calling on_retry before it looks at the failure
ExceptHandlerNotifiesFirst(e) ==
    /\ pc = "running"
    /\ last_exc' = e
    /\ outcomes' = Append(outcomes, OutcomeFail(candidates[ci], e))
    /\ run_notes' = IF on_retry # "none"
                     THEN Append(run_notes, <<attempt, max_attempts, delay>>)
                     ELSE run_notes
    /\ IF \/ _is_quota_exhausted_error(e)
          \/ ~_is_transient_model_error(genai_errors, e)
          \/ attempt >= max_attempts
       THEN /\ exec_result' = Raised(e)
            /\ pc' = "exec_raised"
            /\ UNCHANGED run_sleeps
       ELSE /\ run_sleeps' = Append(run_sleeps, delay)
            /\ pc' = "sleeping"
            /\ UNCHANGED exec_result
    /\ UNCHANGED <<configVars, ci, attempt, delay, final_text, events, seen, discarded, invoked,
                   run_base, result>>

\* the stream raises e: the except handler, up to the raise or the sleep; an
\* observer that raises ends the run with its exception, inside the handler
ExceptHandler(e) ==
    /\ pc = "running"
    /\ last_exc' = e
    /\ outcomes' = Append(outcomes, OutcomeFail(candidates[ci], e))
    /\ IF _is_quota_exhausted_error(e)
       THEN /\ exec_result' = Raised(e)
            /\ pc' = "exec_raised"
            /\ UNCHANGED <<run_sleeps, run_notes>>
       ELSE IF ~_is_transient_model_error(genai_errors, e) \/ attempt >= max_attempts
       THEN /\ exec_result' = Raised(e)
            /\ pc' = "exec_raised"
            /\ UNCHANGED <<run_sleeps, run_notes>>
       ELSE IF on_retry = "raises"
       THEN /\ run_notes' = Append(run_notes, <<attempt, max_attempts, delay>>)
            /\ exec_result' = Raised(ObserverError)
            /\ pc' = "exec_raised"
            /\ UNCHANGED run_sleeps
       ELSE /\ run_notes' = IF on_retry # "none"
                            THEN Append(run_notes, <<attempt, max_attempts, delay>>)
                            ELSE run_notes
            /\ run_sleeps' = Append(run_sleeps, delay)
            /\ pc' = "sleeping"
            /\ UNCHANGED exec_result
    /\ UNCHANGED <<configVars, ci, attempt, delay, final_text, events, seen, discarded, invoked,
                   run_base, result>>

\* SleepDone adding the factor instead of multiplying by it
SleepDoneAdds ==
    /\ pc = "sleeping"
    /\ delay' = delay + backoff_factor
    /\ pc' = "loop"
    /\ UNCHANGED <<configVars, ci, attempt, last_exc, final_text, events, seen, discarded, invoked,
                   outcomes, run_base, run_sleeps, run_notes, exec_result, result>>

\* asyncio.sleep(delay) is over: delay *= backoff_factor
SleepDone ==
    /\ pc = "sleeping"
    /\ delay' = delay * backoff_factor
    /\ pc' = "loop"
    /\ UNCHANGED <<configVars, ci, attempt, last_exc, final_text, events, seen, discarded, invoked,
                   outcomes, run_base, run_sleeps, run_notes, exec_result, result>>

\* what asyncio raises in a cancelled task; not a subclass of Exception
CancelledError == Exc("CancelledError", NoStatus, {})

\* the variables no step of a run changes
settingVars ==
    <<genai_errors, max_attempts, initial_delay_s, backoff_factor, on_retry,
      env_primary, env_fallback, candidates, keep_seen, classVars, sessVars,
      callVars, metricVars>>

\* the caller's cancellation taken by the except clause like a failure of the call
CancelTakenAsFailure ==
    /\ pc \in {"running", "sleeping"}
    /\ cancelled' = TRUE
    /\ last_exc' = CancelledError
    /\ outcomes' = Append(outcomes, OutcomeFail(candidates[ci], CancelledError))
    /\ exec_result' = Raised(CancelledError)
    /\ pc' = "exec_raised"
    /\ UNCHANGED <<settingVars, ci, attempt, delay, final_text, events, seen,
                   discarded, invoked, run_base, run_sleeps, run_notes, result>>

\* the caller cancels the task while it awaits the stream or asyncio.sleep:
\* CancelledError is raised there and except Exception does not take it
Cancel ==
    /\ pc \in {"running", "sleeping"}
    /\ cancelled' = TRUE
    /\ exec_result' = Raised(CancelledError)
    /\ pc' = "cancelled"
    /\ UNCHANGED <<settingVars, ci, attempt, delay, last_exc, final_text, events,
                   seen, discarded, invoked, outcomes, run_base, run_sleeps,
                   run_notes, result>>

(***************************************************************************)
(* The model fallback cascade over _get_model_candidates().                *)
(***************************************************************************)
\* the executor returned text: the cascade returns it
CascadeOnSuccess ==
    /\ pc = "exec_returned"
    /\ result' = exec_result
    /\ pc' = "done"
    /\ UNCHANGED <<configVars, ci, attempt, delay, last_exc, final_text, events, seen, discarded,
                   invoked, outcomes, run_base, run_sleeps, run_notes, exec_result>>

\* the executor raised: abort on quota, else next candidate, else propagate
CascadeOnFailure ==
    /\ pc = "exec_raised"
    /\ IF _is_quota_exhausted_error(exec_result.exc) \/ ci >= Len(candidates)
       THEN /\ result' = exec_result
            /\ pc' = "done"
            /\ UNCHANGED ci
       ELSE /\ ci' = ci + 1
            /\ pc' = "start"
            /\ UNCHANGED result
    /\ UNCHANGED <<configVars, attempt, delay, last_exc, final_text, events, seen, discarded,
                   invoked, outcomes, run_base, run_sleeps, run_notes, exec_result>>

(***************************************************************************)
(* The error classifier on its own: the two predicates applied to every    *)
(* failure of AllExcs.                                                     *)
(***************************************************************************)
RetryIdle ==
    /\ max_attempts = 1
    /\ initial_delay_s = 1
    /\ backoff_factor = 1
    /\ on_retry = "none"
    /\ env_primary = Unset
    /\ env_fallback = Unset
    /\ candidates = <<>>
    /\ ci = 1
    /\ pc = "off"
    /\ attempt = 0
    /\ delay = 0
    /\ last_exc = NoExc
    /\ final_text = ""
    /\ events = 0
    /\ keep_seen = FALSE
    /\ seen = <<>>
    /\ discarded = <<>>
    /\ cancelled = FALSE
    /\ invoked = <<>>
    /\ outcomes = <<>>
    /\ run_base = 0
    /\ run_sleeps = <<>>
    /\ run_notes = <<>>
    /\ exec_result = NoResult
    /\ result = NoResult

ClassifyInit ==
    /\ RetryIdle
    /\ SessIdle
    /\ MetricsIdle
    /\ CallIdle
    /\ genai_errors \in BOOLEAN
    /\ cls_exc \in AllExcs
    /\ cls_quota = FALSE
    /\ cls_transient = FALSE
    /\ cls_pc = "input"

\* both predicates applied to the same failure, as lines 107 and 109 do
Classify ==
    /\ cls_pc = "input"
    /\ cls_quota' = _is_quota_exhausted_error(cls_exc)
    /\ cls_transient' = _is_transient_model_error(genai_errors, cls_exc)
    /\ cls_pc' = "classified"
    /\ UNCHANGED <<retryVars, sessVars, callVars, metricVars, cls_exc>>

ClassifyNext == Classify

SpecClassify == ClassifyInit /\ [][ClassifyNext]_vars

(***************************************************************************)
(* Session resolution with the functions of places_agent_core:             *)
(* initialize_services, generate_session_id, create_or_retrieve_session.   *)
(***************************************************************************)
SessionInit ==
    /\ RetryIdle
    /\ ClassIdle
    /\ CallIdle
    /\ MetricsIdle
    /\ genai_errors = TRUE
    /\ db = {}
    /\ mem = {}
    /\ used_uuids = {}
    /\ req_no = 0
    /\ entry = "none"
    /\ s_pc = "idle"
    /\ user_id = <<>>
    /\ topic = NoTopic
    /\ session_service = "none"
    /\ using_database = FALSE
    /\ db_error = NoExc
    /\ session_id = <<>>
    /\ existed = FALSE
    /\ session = NoSession
    /\ created_new = FALSE
    /\ get_called = FALSE
    /\ store_fault = FALSE
    /\ create_exc = NoExc
    /\ get_exc = NoExc
    /\ model_failure = NoExc
    /\ sp_final_text = ""
    /\ sp_events = 0
    /\ memory_saved = "no"
    /\ s_result = NoResult
    /\ handles = <<>>

otherVars == <<retryVars, classVars, callVars, metricVars>>

Contents == IF session_service = "database" THEN db ELSE mem

Key == SessionKey(AppName, user_id, session_id)

\* the record the history keeps of a finished request
Handle(sess, new, called, fault, res) ==
    [entry |-> entry, user |-> user_id, topic |-> topic, id |-> session_id,
     service |-> session_service, using_database |-> using_database,
     existed |-> existed, session |-> sess, created_new |-> new,
     get_called |-> called, fault |-> fault, kind |-> res.kind]

\* the store after create_session stored the session
Stored ==
    /\ db' = IF session_service = "database" THEN db \cup {Key} ELSE db
    /\ mem' = IF session_service = "database" THEN mem ELSE mem \cup {Key}

\* a caller asks for the session of (requesterId, topic)
ResolveBegin(u, t) ==
    /\ s_pc = "idle"
    /\ req_no < MaxRequests
    /\ req_no' = req_no + 1
    /\ entry' = "core"
    /\ user_id' = u
    /\ topic' = t
    /\ session_service' = "none"
    /\ using_database' = FALSE
    /\ db_error' = NoExc
    /\ mem' = {}
    /\ session_id' = <<>>
    /\ existed' = FALSE
    /\ session' = NoSession
    /\ created_new' = FALSE
    /\ get_called' = FALSE
    /\ store_fault' = FALSE
    /\ create_exc' = NoExc
    /\ get_exc' = NoExc
    /\ model_failure' = NoExc
    /\ sp_final_text' = ""
    /\ sp_events' = 0
    /\ memory_saved' = "no"
    /\ s_result' = NoResult
    /\ s_pc' = "init"
    /\ UNCHANGED <<otherVars, db, used_uuids, handles>>

\* initialize_services constructing the durable store whatever the topic
InitializeServicesIgnoresTopic(constructed) ==
    /\ s_pc = "init"
    /\ entry = "core"
    /\ IF constructed
       THEN /\ session_service' = "database"
            /\ using_database' = TRUE
            /\ db_error' = NoExc
       ELSE /\ session_service' = "memory"
            /\ using_database' = FALSE
            /\ db_error' = Exc("OperationalError", NoStatus, {"unable to open database"})
    /\ s_pc' = "genid"
    /\ UNCHANGED <<otherVars, db, mem, used_uuids, req_no, entry, user_id, topic,
                   session_id, existed, session, created_new, get_called,
                   store_fault, create_exc, get_exc, model_failure,
                   sp_final_text, sp_events, memory_saved, s_result, handles>>

\* initialize_services leaving using_database set when the construction raised
InitializeServicesKeepsFlag(constructed) ==
    /\ s_pc = "init"
    /\ entry = "core"
    /\ IF Truthy(topic)
       THEN IF constructed
            THEN /\ session_service' = "database"
                 /\ using_database' = TRUE
                 /\ db_error' = NoExc
            ELSE /\ session_service' = "memory"
                 /\ using_database' = TRUE
                 /\ db_error' = Exc("OperationalError", NoStatus, {"unable to open database"})
       ELSE /\ session_service' = "memory"
            /\ using_database' = FALSE
            /\ db_error' = NoExc
    /\ s_pc' = "genid"
    /\ UNCHANGED <<otherVars, db, mem, used_uuids, req_no, entry, user_id, topic,
                   session_id, existed, session, created_new, get_called,
                   store_fault, create_exc, get_exc, model_failure,
                   sp_final_text, sp_events, memory_saved, s_result, handles>>

\* initialize_services(topic): constructing DatabaseSessionService works or raises
InitializeServices(constructed) ==
    /\ s_pc = "init"
    /\ entry = "core"
    /\ IF Truthy(topic)
       THEN IF constructed
            THEN /\ session_service' = "database"
                 /\ using_database' = TRUE
                 /\ db_error' = NoExc
            ELSE /\ session_service' = "memory"
                 /\ using_database' = FALSE
                 /\ db_error' = Exc("OperationalError", NoStatus, {"unable to open database"})
       ELSE /\ session_service' = "memory"
            /\ using_database' = FALSE
            /\ db_error' = NoExc
    /\ s_pc' = "genid"
    /\ UNCHANGED <<otherVars, db, mem, used_uuids, req_no, entry, user_id, topic,
                   session_id, existed, session, created_new, get_called,
                   store_fault, create_exc, get_exc, model_failure, sp_final_text, sp_events,
                   memory_saved, s_result, handles>>

\* session_id = generate_session_id(user_id, topic); uuid is what uuid.uuid4()
\* would return, and counts as used when it went into the identifier
GenerateSessionId ==
    /\ s_pc = "genid"
    /\ entry = "core"
    /\ \E uuid \in Uuids \ used_uuids :
          /\ session_id' = generate_session_id(user_id, topic, uuid)
          /\ used_uuids' = IF session_id' = generate_session_id(user_id, topic, "none")
                           THEN used_uuids ELSE used_uuids \cup {uuid}
    /\ s_pc' = "create"
    /\ UNCHANGED <<otherVars, db, mem, req_no, entry, user_id, topic,
                   session_service, using_database, db_error, existed, session,
                   created_new, get_called, store_fault, create_exc, get_exc, model_failure,
                   sp_final_text, sp_events, memory_saved, s_result, handles>>

\* what session_service.create_session can raise in the current state
CreateErrors ==
    (IF Key \in Contents THEN {AlreadyExistsError} ELSE {})
        \cup (IF session_service = "database" THEN StoreFaults ELSE {})

\* what session_service.get_session can raise in the current state
GetErrors == IF session_service = "database" THEN StoreFaults ELSE {}

\* what get_session returns: the stored session, or None
GetValue == IF Key \in Contents THEN Key ELSE NoSession

\* create_or_retrieve_session, the try: create_session returns the session
CreateSessionOk ==
    /\ s_pc = "create"
    /\ entry = "core"
    /\ Key \notin Contents
    /\ Stored
    /\ existed' = FALSE
    /\ session' = Key
    /\ created_new' = TRUE
    /\ s_result' = Returned("session")
    /\ handles' = Append(handles, Handle(Key, TRUE, FALSE, FALSE, Returned("session")))
    /\ s_pc' = "idle"
    /\ UNCHANGED <<otherVars, used_uuids, req_no, entry, user_id, topic,
                   session_service, using_database, db_error, session_id,
                   get_called, store_fault, create_exc, get_exc, model_failure, sp_final_text,
                   sp_events, memory_saved>>

\* the outer except clause taking every failure of create_session
CreateSessionRaisesBareExcept(e) ==
    /\ s_pc = "create"
    /\ entry = "core"
    /\ e \in CreateErrors
    /\ existed' = (Key \in Contents)
    /\ store_fault' = (e \in StoreFaults)
    /\ create_exc' = e
    /\ s_pc' = "get"
    /\ UNCHANGED <<otherVars, db, mem, used_uuids, req_no, entry, user_id, topic,
                   session_service, using_database, db_error, session_id,
                   session, created_new, get_called, get_exc, model_failure,
                   sp_final_text, sp_events, memory_saved, s_result, handles>>

\* create_or_retrieve_session, create_session raises e: the outer except clause
CreateSessionRaises(e) ==
    /\ s_pc = "create"
    /\ entry = "core"
    /\ e \in CreateErrors
    /\ existed' = (Key \in Contents)
    /\ store_fault' = (e \in StoreFaults)
    /\ create_exc' = e
    /\ UNCHANGED get_exc
    /\ IF e.type \in RecoverableClasses
       THEN /\ s_pc' = "get"
            /\ UNCHANGED <<s_result, handles>>
       ELSE /\ s_result' = Raised(e)
            /\ handles' = Append(handles,
                   Handle(NoSession, FALSE, FALSE, e \in StoreFaults, Raised(e)))
            /\ s_pc' = "idle"
    /\ UNCHANGED <<otherVars, db, mem, used_uuids, req_no, entry, user_id, topic,
                   session_service, using_database, db_error, session_id,
                   session, created_new, get_called, model_failure,
                   sp_final_text, sp_events, memory_saved>>

\* the fallback returning (session, True)
GetSessionReturnsFlagTrue ==
    /\ s_pc = "get"
    /\ entry = "core"
    /\ get_called' = TRUE
    /\ session' = GetValue
    /\ created_new' = TRUE
    /\ s_result' = Returned("session")
    /\ handles' = Append(handles,
           Handle(GetValue, TRUE, TRUE, store_fault, Returned("session")))
    /\ s_pc' = "idle"
    /\ UNCHANGED <<otherVars, db, mem, used_uuids, req_no, entry, user_id, topic,
                   session_service, using_database, db_error, session_id,
                   existed, store_fault, create_exc, get_exc, model_failure,
                   sp_final_text, sp_events, memory_saved>>

\* the fallback: get_session returns (a session or None)
GetSessionReturns ==
    /\ s_pc = "get"
    /\ entry = "core"
    /\ get_called' = TRUE
    /\ session' = GetValue
    /\ created_new' = FALSE
    /\ s_result' = Returned("session")
    /\ handles' = Append(handles,
           Handle(GetValue, FALSE, TRUE, store_fault, Returned("session")))
    /\ s_pc' = "idle"
    /\ UNCHANGED <<otherVars, db, mem, used_uuids, req_no, entry, user_id, topic,
                   session_service, using_database, db_error, session_id,
                   existed, store_fault, create_exc, get_exc, model_failure, sp_final_text,
                   sp_events, memory_saved>>

\* the fallback: get_session raises e: the inner except clause
GetSessionRaises(e) ==
    /\ s_pc = "get"
    /\ entry = "core"
    /\ e \in GetErrors
    /\ get_called' = TRUE
    /\ store_fault' = TRUE
    /\ get_exc' = e
    /\ UNCHANGED create_exc
    /\ LET raised == IF e.type \in RecoverableClasses
                     THEN Exc("RuntimeError", NoStatus,
                              {"Failed to create or retrieve session"} \cup e.msg)
                     ELSE e
       IN  /\ s_result' = Raised(raised)
           /\ handles' = Append(handles,
                  Handle(NoSession, FALSE, TRUE, TRUE, Raised(raised)))
    /\ s_pc' = "idle"
    /\ UNCHANGED <<otherVars, db, mem, used_uuids, req_no, entry, user_id, topic,
                   session_service, using_database, db_error, session_id,
                   existed, session, created_new, model_failure, sp_final_text,
                   sp_events, memory_saved>>

SessionNext ==
    \/ \E u \in UserIds, t \in Topics : ResolveBegin(u, t)
    \/ \E c \in BOOLEAN : InitializeServices(c)
    \/ GenerateSessionId
    \/ CreateSessionOk
    \/ \E e \in StoreFaults \cup {AlreadyExistsError} : CreateSessionRaises(e)
    \/ GetSessionReturns
    \/ \E e \in StoreFaults : GetSessionRaises(e)

SpecSession == SessionInit /\ [][SessionNext]_vars

(***************************************************************************)
(* MetricsTrackingPlugin of observability_plugin.py under the callbacks    *)
(* of one plugin instance, which the runner calls around every agent of    *)
(* EnhancedPlacesSearchPipeline.                                           *)
(***************************************************************************)
MaxAgentStarts == 12

RootAgent == "EnhancedPlacesSearchPipeline"

\* sub_agents=[research_agent, filter_agent, formatter_agent], run in order
PipelineSubAgents == <<"ResearchAgent", "FilterAgent", "FormatterAgent">>

\* f"{agent.name}_{self.agent_count}"
AgentId(name, count) == <<name, count>>

\* an agent the runner has entered and how many of its sub-agents are done
Running(name, done) == [name |-> name, done |-> done]

Top == agents_running[Len(agents_running)]

\* the agents the runner may enter next
NextAgents ==
    IF agents_running = <<>> THEN {RootAgent}
    ELSE IF Top.name = RootAgent
         THEN IF Top.done < Len(PipelineSubAgents)
              THEN {PipelineSubAgents[Top.done + 1]} ELSE {}
    ELSE IF Top.name = "FilterAgent" THEN {"CalculationAgent"}
    ELSE {}

\* whether the agent on top has run all it has to run
MayComplete ==
    /\ agents_running # <<>>
    /\ Top.name = RootAgent => Top.done = Len(PipelineSubAgents)

MetricsInit ==
    /\ RetryIdle
    /\ ClassIdle
    /\ SessIdle
    /\ CallIdle
    /\ MetricsIdle
    /\ genai_errors = TRUE

\* before_agent_callback(agent)
BeforeAgent(name) ==
    /\ agent_starts < MaxAgentStarts
    /\ name \in NextAgents
    /\ agent_count' = agent_count + 1
    /\ agent_start_times' = agent_start_times \cup {AgentId(name, agent_count + 1)}
    /\ agents_running' = Append(agents_running, Running(name, 0))
    /\ agent_starts' = agent_starts + 1
    /\ UNCHANGED <<retryVars, classVars, sessVars, callVars>>

\* after_agent_callback(agent) for the agent that completes
AfterAgent ==
    /\ MayComplete
    /\ agent_start_times' = agent_start_times \ {AgentId(Top.name, agent_count)}
    /\ agents_running' =
          LET rest == SubSeq(agents_running, 1, Len(agents_running) - 1)
          IN  IF rest = <<>> THEN rest
              ELSE [rest EXCEPT ![Len(rest)].done = @ + 1]
    /\ UNCHANGED <<agent_count, agent_starts, retryVars, classVars, sessVars, callVars>>

MetricsNext ==
    \/ \E name \in {RootAgent, "CalculationAgent"}
                      \cup {PipelineSubAgents[i] : i \in 1..Len(PipelineSubAgents)} :
          BeforeAgent(name)
    \/ AfterAgent

SpecMetrics == MetricsInit /\ [][MetricsNext]_vars

(***************************************************************************)
(* search_places of main.py and agent/agent.py.                            *)
(***************************************************************************)
SearchUserIds == {<<"u1">>}
SearchTopics == {NoTopic, TopicOf(<<" ">>), TopicOf(<<"trip", " ">>)}

\* main.py: topic = topic.strip() if topic else None
CleanTopic(t) == IF Truthy(t) THEN TopicOf(Strip(t.val)) ELSE NoTopic

\* the inline session id of search_places
SearchSessionId(u, t, uuid) ==
    IF Truthy(t) THEN u \o <<"::">> \o t.val
    ELSE u \o <<"::", "temp", "::", uuid>>

\* the failures the remote call raises in search_places: one of each class
SearchFailures ==
    { Exc("Exception", NoStatus, {"429", "RESOURCE_EXHAUSTED"}),
      Exc("ServerError", 503, {}),
      Exc("Exception", NoStatus, {"permission denied"}) }

AttributeError == Exc("AttributeError", NoStatus, {"'NoneType' object has no attribute 'id'"})

\* search_places up to the session id: the topic is cleaned (main.py only),
\* initialize_services builds the stores, the session id is generated
SearchSetup(e, u, t, constructed) ==
    /\ s_pc = "idle"
    /\ req_no < MaxRequests
    /\ req_no' = req_no + 1
    /\ entry' = e
    /\ user_id' = u
    /\ topic' = IF e = "main" THEN CleanTopic(t) ELSE t
    /\ session_service' = IF Truthy(topic') /\ constructed THEN "database" ELSE "memory"
    /\ using_database' = FALSE
    /\ db_error' = NoExc
    /\ mem' = {}
    /\ IF Truthy(topic')
       THEN /\ session_id' = SearchSessionId(u, topic', "unused")
            /\ UNCHANGED used_uuids
       ELSE \E uuid \in Uuids \ used_uuids :
                /\ session_id' = SearchSessionId(u, topic', uuid)
                /\ used_uuids' = used_uuids \cup {uuid}
    /\ existed' = FALSE
    /\ session' = NoSession
    /\ created_new' = FALSE
    /\ get_called' = FALSE
    /\ store_fault' = FALSE
    /\ create_exc' = NoExc
    /\ get_exc' = NoExc
    /\ model_failure' = NoExc
    /\ sp_final_text' = ""
    /\ sp_events' = 0
    /\ memory_saved' = "no"
    /\ s_result' = NoResult
    /\ s_pc' = "screate"
    /\ UNCHANGED <<otherVars, db, handles>>

\* try: session = await session_service.create_session(...)
SearchCreateOk ==
    /\ s_pc = "screate"
    /\ Key \notin Contents
    /\ Stored
    /\ session' = Key
    /\ created_new' = TRUE
    /\ s_pc' = "srun"
    /\ UNCHANGED <<otherVars, used_uuids, req_no, entry, user_id, topic,
                   session_service, using_database, db_error, session_id,
                   existed, get_called, store_fault, create_exc, get_exc, model_failure,
                   sp_final_text, sp_events, memory_saved, s_result, handles>>

\* create_session raises e: the bare except goes on to get_session
SearchCreateRaises(e) ==
    /\ s_pc = "screate"
    /\ e \in CreateErrors
    /\ existed' = (Key \in Contents)
    /\ store_fault' = (e \in StoreFaults)
    /\ create_exc' = e
    /\ UNCHANGED get_exc
    /\ s_pc' = "sget"
    /\ UNCHANGED <<otherVars, db, mem, used_uuids, req_no, entry, user_id, topic,
                   session_service, using_database, db_error, session_id,
                   session, created_new, get_called, model_failure,
                   sp_final_text, sp_events, memory_saved, s_result, handles>>

\* except: session = await session_service.get_session(...) returns
SearchGetReturns ==
    /\ s_pc = "sget"
    /\ get_called' = TRUE
    /\ session' = GetValue
    /\ s_pc' = "srun"
    /\ UNCHANGED <<otherVars, db, mem, used_uuids, req_no, entry, user_id, topic,
                   session_service, using_database, db_error, session_id,
                   existed, created_new, store_fault, create_exc, get_exc, model_failure,
                   sp_final_text, sp_events, memory_saved, s_result, handles>>

\* get_session raises e inside the except clause: search_places raises e
SearchGetRaises(e) ==
    /\ s_pc = "sget"
    /\ e \in GetErrors
    /\ get_called' = TRUE
    /\ store_fault' = TRUE
    /\ get_exc' = e
    /\ UNCHANGED create_exc
    /\ s_result' = Raised(e)
    /\ handles' = Append(handles, Handle(NoSession, FALSE, TRUE, TRUE, Raised(e)))
    /\ s_pc' = "idle"
    /\ UNCHANGED <<otherVars, db, mem, used_uuids, req_no, entry, user_id, topic,
                   session_service, using_database, db_error, session_id,
                   existed, session, created_new, model_failure, sp_final_text,
                   sp_events, memory_saved>>

\* runner.run_async(session_id=session.id, ...) with session = None
SearchNoSession ==
    /\ s_pc = "srun"
    /\ session = NoSession
    /\ s_result' = Raised(AttributeError)
    /\ handles' = Append(handles,
           Handle(session, created_new, get_called, store_fault, Raised(AttributeError)))
    /\ s_pc' = "idle"
    /\ UNCHANGED <<otherVars, db, mem, used_uuids, req_no, entry, user_id, topic,
                   session_service, using_database, db_error, session_id,
                   existed, session, created_new, get_called, store_fault, create_exc, get_exc,
                   model_failure, sp_final_text, sp_events, memory_saved>>

\* one iteration of the async for of search_places
SearchConsume(ev) ==
    /\ s_pc = "srun"
    /\ session # NoSession
    /\ sp_events < MaxEvents
    /\ sp_final_text' = CollectText(sp_final_text, ev)
    /\ sp_events' = sp_events + 1
    /\ UNCHANGED <<otherVars, db, mem, used_uuids, req_no, entry, s_pc, user_id,
                   topic, session_service, using_database, db_error, session_id,
                   existed, session, created_new, get_called, store_fault, create_exc, get_exc,
                   model_failure, memory_saved, s_result, handles>>

\* the stream raises e: nothing in search_places catches it
SearchStreamRaises(e) ==
    /\ s_pc = "srun"
    /\ session # NoSession
    /\ model_failure' = e
    /\ s_result' = Raised(e)
    /\ handles' = Append(handles,
           Handle(session, created_new, get_called, store_fault, Raised(e)))
    /\ sp_final_text' = ""
    /\ sp_events' = 0
    /\ s_pc' = "idle"
    /\ UNCHANGED <<otherVars, db, mem, used_uuids, req_no, entry, user_id, topic,
                   session_service, using_database, db_error, session_id,
                   existed, session, created_new, get_called, store_fault, create_exc, get_exc,
                   memory_saved>>

\* SearchReturn without the try/except around add_session_to_memory
SearchReturnPropagates(saved) ==
    /\ s_pc = "srun"
    /\ session # NoSession
    /\ memory_saved' = IF Truthy(topic) THEN (IF saved THEN "saved" ELSE "failed")
                       ELSE "no"
    /\ s_result' = IF Truthy(topic) /\ ~saved
                   THEN Raised(Exc("RuntimeError", NoStatus, {"memory store failed"}))
                   ELSE Returned(sp_final_text)
    /\ handles' = Append(handles,
           Handle(session, created_new, get_called, store_fault, s_result'))
    /\ sp_events' = 0
    /\ s_pc' = "idle"
    /\ UNCHANGED <<otherVars, db, mem, used_uuids, req_no, entry, user_id, topic,
                   session_service, using_database, db_error, session_id,
                   existed, session, created_new, get_called, store_fault,
                   create_exc, get_exc, model_failure, sp_final_text>>

\* the stream ends: add_session_to_memory if topic (failure swallowed),
\* return final_text
SearchReturn(saved) ==
    /\ s_pc = "srun"
    /\ session # NoSession
    /\ memory_saved' = IF Truthy(topic) THEN (IF saved THEN "saved" ELSE "failed")
                       ELSE "no"
    /\ s_result' = Returned(sp_final_text)
    /\ handles' = Append(handles,
           Handle(session, created_new, get_called, store_fault, Returned(sp_final_text)))
    /\ sp_events' = 0
    /\ s_pc' = "idle"
    /\ UNCHANGED <<otherVars, db, mem, used_uuids, req_no, entry, user_id, topic,
                   session_service, using_database, db_error, session_id,
                   existed, session, created_new, get_called, store_fault, create_exc, get_exc,
                   model_failure, sp_final_text>>

SearchNext ==
    \/ \E e \in {"main", "agent"}, u \in SearchUserIds, t \in SearchTopics, c \in BOOLEAN :
           SearchSetup(e, u, t, c)
    \/ SearchCreateOk
    \/ \E e \in StoreFaults \cup {AlreadyExistsError} : SearchCreateRaises(e)
    \/ SearchGetReturns
    \/ \E e \in StoreFaults : SearchGetRaises(e)
    \/ SearchNoSession
    \/ \E ev \in StreamEvents : SearchConsume(ev)
    \/ \E e \in SearchFailures : SearchStreamRaises(e)
    \/ \E saved \in BOOLEAN : SearchReturn(saved)

SpecSearch == SessionInit /\ [][SearchNext]_vars

\* requests through either entry point against the same durable store
SpecRequests == SessionInit /\ [][SessionNext \/ SearchNext]_vars

(***************************************************************************)
(* generate_session_id on its own: the identifiers of two requests whose   *)
(* requester and topic are free text, "::" included.                       *)
(***************************************************************************)
IdUserIds == {<<"u1">>, <<"u1", "::", "a">>, <<"u2">>}
IdTopics ==
    {NoTopic, TopicOf(<<>>), TopicOf(<<"b">>), TopicOf(<<"a", "::", "b">>),
     TopicOf(<<"temp", "::", "uuid1">>)}

IdArgs(u, t, uuid) == [user |-> u, topic |-> t, uuid |-> uuid]

\* the two calls draw different values from uuid.uuid4()
IdsInit ==
    /\ RetryIdle
    /\ ClassIdle
    /\ SessIdle
    /\ MetricsIdle
    /\ genai_errors = TRUE
    /\ call_pc = "input"
    /\ call_in \in { <<IdArgs(u1, t1, x1), IdArgs(u2, t2, x2)>> :
                       <<u1, u2>> \in IdUserIds \X IdUserIds,
                       <<t1, t2>> \in IdTopics \X IdTopics,
                       <<x1, x2>> \in {p \in Uuids \X Uuids : p[1] # p[2]} }
    /\ call_out = <<>>

GenerateIds ==
    /\ call_pc = "input"
    /\ call_out' = [i \in 1..2 |->
                       generate_session_id(call_in[i].user, call_in[i].topic,
                                           call_in[i].uuid)]
    /\ call_pc' = "returned"
    /\ UNCHANGED <<retryVars, classVars, sessVars, metricVars, call_in>>

IdsNext == GenerateIds

SpecIds == IdsInit /\ [][IdsNext]_vars

(***************************************************************************)
(* The scoring tools.  calculate_distance_score is defined three times, in *)
(* scoring_tools.py, main.py and agent/agent.py.  A distance is a number   *)
(* of tenths of a kilometre.                                               *)
(***************************************************************************)
MaxDistance == 105

Distances == (0 - MaxDistance)..MaxDistance

\* calculate_distance_score with < where the code has <=
CalculateDistanceScoreStrict(distance_km) ==
    IF distance_km < 0
    THEN [status |-> "error", error_message |-> "Distance cannot be negative"]
    ELSE LET score == IF distance_km < 10 THEN 10
                      ELSE IF distance_km < 30 THEN 8
                      ELSE IF distance_km < 50 THEN 6
                      ELSE IF distance_km < 100 THEN 4
                      ELSE 2
         IN  [status |-> "success", score |-> score, distance_km |-> distance_km]

\* scoring_tools.py
calculate_distance_score(distance_km) ==
    IF distance_km < 0
    THEN [status |-> "error", error_message |-> "Distance cannot be negative"]
    ELSE LET score == IF distance_km <= 10 THEN 10
                      ELSE IF distance_km <= 30 THEN 8
                      ELSE IF distance_km <= 50 THEN 6
                      ELSE IF distance_km <= 100 THEN 4
                      ELSE 2
         IN  [status |-> "success", score |-> score, distance_km |-> distance_km]

\* main.py
main_calculate_distance_score(distance_km) ==
    IF distance_km < 0
    THEN [status |-> "error", error_message |-> "Distance cannot be negative"]
    ELSE LET score == IF distance_km <= 10 THEN 10
                      ELSE IF distance_km <= 30 THEN 8
                      ELSE IF distance_km <= 50 THEN 6
                      ELSE IF distance_km <= 100 THEN 4
                      ELSE 2
         IN  [status |-> "success", score |-> score, distance_km |-> distance_km]

\* agent/agent.py
agent_calculate_distance_score(distance_km) ==
    IF distance_km < 0
    THEN [status |-> "error", error_message |-> "Distance cannot be negative"]
    ELSE LET score == IF distance_km <= 10 THEN 10
                      ELSE IF distance_km <= 30 THEN 8
                      ELSE IF distance_km <= 50 THEN 6
                      ELSE IF distance_km <= 100 THEN 4
                      ELSE 2
         IN  [status |-> "success", score |-> score, distance_km |-> distance_km]

DistanceInit ==
    /\ RetryIdle
    /\ ClassIdle
    /\ SessIdle
    /\ MetricsIdle
    /\ genai_errors = TRUE
    /\ call_pc = "input"
    /\ call_in \in Distances \X Distances
    /\ call_out = <<>>

\* each copy applied to both distances
ScoreDistances ==
    /\ call_pc = "input"
    /\ call_out' = [tools |-> [i \in 1..2 |-> calculate_distance_score(call_in[i])],
                    main |-> [i \in 1..2 |-> main_calculate_distance_score(call_in[i])],
                    agent |-> [i \in 1..2 |-> agent_calculate_distance_score(call_in[i])]]
    /\ call_pc' = "returned"
    /\ UNCHANGED <<retryVars, classVars, sessVars, metricVars, call_in>>

DistanceNext == ScoreDistances

SpecDistance == DistanceInit /\ [][DistanceNext]_vars

(***************************************************************************)
(* get_place_category_boost.  A string is a sequence of atoms chosen so    *)
(* that one string is a substring of another exactly when its atoms are a  *)
(* contiguous run of the other's.                                          *)
(***************************************************************************)
\* str.lower() on one atom
LowerAtom(a) ==
    CASE a = "RESTAURANT" -> "restaurant"
      [] a = "Hiking" -> "hiking"
      [] a = "Museum" -> "museum"
      [] OTHER -> a

\* str.lower()
WordLower(w) == [i \in 1..Len(w) |-> LowerAtom(w[i])]

\* a in b, for strings
IsSubstr(a, b) ==
    \E i \in 0..(Len(b) - Len(a)) : SubSeq(b, i + 1, i + Len(a)) = a

food_related == << <<"restaurant">>, <<"cafe">>, <<"coffee">>, <<"bar">>, <<"food">> >>
culture_related == << <<"museum">>, <<"gallery">>, <<"theater">>, <<"art">> >>
outdoor_related == << <<"park">>, <<"garden">>, <<"hiking">>, <<"beach">> >>

\* any(term in preferences for term in group)
AnyTermIn(group, preferences) ==
    \E i \in 1..Len(group) : IsSubstr(group[i], preferences)

\* get_place_category_boost without the two calls of lower()
GetPlaceCategoryBoostNoLower(category_in, preferences_in) ==
    LET category == category_in
        preferences == preferences_in
    IN  IF IsSubstr(category, preferences) \/ IsSubstr(preferences, category)
        THEN [status |-> "success", boost |-> 3, reason |-> "Direct match"]
        ELSE IF InList(category, food_related) /\ AnyTermIn(food_related, preferences)
        THEN [status |-> "success", boost |-> 2, reason |-> "Food-related match"]
        ELSE IF InList(category, culture_related) /\ AnyTermIn(culture_related, preferences)
        THEN [status |-> "success", boost |-> 2, reason |-> "Culture-related match"]
        ELSE IF InList(category, outdoor_related) /\ AnyTermIn(outdoor_related, preferences)
        THEN [status |-> "success", boost |-> 2, reason |-> "Outdoor-related match"]
        ELSE [status |-> "success", boost |-> 0, reason |-> "No special match"]

get_place_category_boost(category_in, preferences_in) ==
    LET category == WordLower(category_in)
        preferences == WordLower(preferences_in)
    IN  IF IsSubstr(category, preferences) \/ IsSubstr(preferences, category)
        THEN [status |-> "success", boost |-> 3, reason |-> "Direct match"]
        ELSE IF InList(category, food_related) /\ AnyTermIn(food_related, preferences)
        THEN [status |-> "success", boost |-> 2, reason |-> "Food-related match"]
        ELSE IF InList(category, culture_related) /\ AnyTermIn(culture_related, preferences)
        THEN [status |-> "success", boost |-> 2, reason |-> "Culture-related match"]
        ELSE IF InList(category, outdoor_related) /\ AnyTermIn(outdoor_related, preferences)
        THEN [status |-> "success", boost |-> 2, reason |-> "Outdoor-related match"]
        ELSE [status |-> "success", boost |-> 0, reason |-> "No special match"]

BoostCategories ==
    { <<>>, <<"restaurant">>, <<"RESTAURANT">>, <<"cafe">>, <<"Museum">>,
      <<"park">>, <<"shopping">>, <<"art", " ", "gallery">> }

BoostPreferences ==
    { <<>>, <<"restaurant">>, <<"coffee", " ", "cafe", " ", "bar">>,
      <<"food", " ", "and", " ", "dining">>, <<"art", " ", "and", " ", "culture">>,
      <<"outdoor", " ", "activities">>, <<"museum", "s">>, <<"Hiking">>,
      <<"bar", "becue">> }

BoostArgs(c, p) == [category |-> c, preferences |-> p]

BoostInit ==
    /\ RetryIdle
    /\ ClassIdle
    /\ SessIdle
    /\ MetricsIdle
    /\ genai_errors = TRUE
    /\ call_pc = "input"
    /\ call_in \in { <<BoostArgs(c1, p1), BoostArgs(c2, p2)>> :
                       <<c1, c2>> \in BoostCategories \X BoostCategories,
                       <<p1, p2>> \in BoostPreferences \X BoostPreferences }
    /\ call_out = <<>>

\* the function applied to two pairs of arguments
BoostCalls ==
    /\ call_pc = "input"
    /\ call_out' = [i \in 1..2 |->
                       get_place_category_boost(call_in[i].category,
                                                call_in[i].preferences)]
    /\ call_pc' = "returned"
    /\ UNCHANGED <<retryVars, classVars, sessVars, metricVars, call_in>>

BoostNext == BoostCalls

SpecBoost == BoostInit /\ [][BoostNext]_vars

(***************************************************************************)
(* _get_model_candidates on its own, for every setting of the two          *)
(* environment variables.                                                  *)
(***************************************************************************)
EnvSettings ==
    { Unset, EnvVal(<<>>), EnvVal(<<" ">>), EnvVal(<<"m1">>),
      EnvVal(<<" ", "m1", " ">>), EnvVal(<<"m2">>), EnvVal(<<" ", "m2">>),
      EnvVal(DefaultPrimary), EnvVal(DefaultFallback) }

CandidatesInit ==
    /\ RetryIdle
    /\ ClassIdle
    /\ SessIdle
    /\ MetricsIdle
    /\ genai_errors = TRUE
    /\ call_pc = "input"
    /\ call_in \in EnvSettings \X EnvSettings
    /\ call_out = <<>>

GetCandidates ==
    /\ call_pc = "input"
    /\ call_out' = _get_model_candidates(call_in[1], call_in[2])
    /\ call_pc' = "returned"
    /\ UNCHANGED <<retryVars, classVars, sessVars, metricVars, call_in>>

CandidatesNext == GetCandidates

SpecCandidates == CandidatesInit /\ [][CandidatesNext]_vars

Init == RetryInit

Next ==
    \/ ExecEnter
    \/ WhileTest
    \/ \E ev \in StreamEvents : ConsumeEvent(ev)
    \/ ReturnFinalText
    \/ \E e \in CallFailures : ExceptHandler(e)
    \/ SleepDone
    \/ CascadeOnSuccess
    \/ CascadeOnFailure

Spec == Init /\ [][Next]_vars

(***************************************************************************)
(* The executor with the history of the events of the current attempt:     *)
(* one candidate, two attempts, no observer.                               *)
(***************************************************************************)
StreamAttempts == 2

StreamInit ==
    /\ ClassIdle
    /\ SessIdle
    /\ MetricsIdle
    /\ CallIdle
    /\ genai_errors = TRUE
    /\ max_attempts = StreamAttempts
    /\ initial_delay_s = 1
    /\ backoff_factor = 1
    /\ on_retry = "none"
    /\ env_primary = EnvVal(<<"m1">>)
    /\ env_fallback = EnvVal(<<"m1">>)
    /\ candidates = _get_model_candidates(env_primary, env_fallback)
    /\ ci = 1
    /\ pc = "start"
    /\ attempt = 0
    /\ delay = 0
    /\ last_exc = NoExc
    /\ final_text = ""
    /\ events = 0
    /\ keep_seen = TRUE
    /\ seen = <<>>
    /\ discarded = <<>>
    /\ cancelled = FALSE
    /\ invoked = <<>>
    /\ outcomes = <<>>
    /\ run_base = 0
    /\ run_sleeps = <<>>
    /\ run_notes = <<>>
    /\ exec_result = NoResult
    /\ result = NoResult

SpecStream == StreamInit /\ [][Next]_vars

(***************************************************************************)
(* The executor with every kind of observer: none, one that returns, one   *)
(* that raises.                                                            *)
(***************************************************************************)
Observers == {"none", "callback", "raises"}

ObserverInit ==
    /\ ClassIdle
    /\ SessIdle
    /\ MetricsIdle
    /\ CallIdle
    /\ genai_errors = TRUE
    /\ max_attempts \in 1..MaxAttemptsBound
    /\ initial_delay_s = 1
    /\ backoff_factor \in BackoffFactors
    /\ on_retry \in Observers
    /\ env_primary \in PrimaryEnvs
    /\ env_fallback \in FallbackEnvs
    /\ candidates = _get_model_candidates(env_primary, env_fallback)
    /\ ci = 1
    /\ pc = "start"
    /\ attempt = 0
    /\ delay = 0
    /\ last_exc = NoExc
    /\ final_text = ""
    /\ events = 0
    /\ keep_seen = FALSE
    /\ seen = <<>>
    /\ discarded = <<>>
    /\ cancelled = FALSE
    /\ invoked = <<>>
    /\ outcomes = <<>>
    /\ run_base = 0
    /\ run_sleeps = <<>>
    /\ run_notes = <<>>
    /\ exec_result = NoResult
    /\ result = NoResult

SpecObserver == ObserverInit /\ [][Next]_vars

\* the same runs, which the caller may cancel
CancelNext == Next \/ Cancel

SpecCancel == ObserverInit /\ [][CancelNext]_vars

(***************************************************************************)
(* Vocabulary of the properties.                                           *)
(***************************************************************************)
RECURSIVE Pow(_, _)
Pow(b, n) == IF n = 0 THEN 1 ELSE b * Pow(b, n - 1)

ClassOf(e) == HandlerClass(genai_errors, e)

IsQuotaFailure(o) == ~o.ok /\ ClassOf(o.exc) = "QuotaExhausted"
IsTransientFailure(o) == ~o.ok /\ ClassOf(o.exc) = "TransientRetryable"
IsFatalFailure(o) == ~o.ok /\ ClassOf(o.exc) = "Fatal"

\* invocations and finished attempts of the current executor run
RunCalls == Len(invoked) - run_base
RunOutcomes == SubSeq(outcomes, run_base + 1, Len(outcomes))

ExecDone == pc \in {"exec_returned", "exec_raised"}

\* the delays of the first n backoff sleeps: d, d*f, ..., d*f^(n-1)
BackoffDelays(n) == [k \in 1..n |-> initial_delay_s * Pow(backoff_factor, k - 1)]

\* C1: a quota-exhausted failure is the last thing its executor run does: no
\* attempt follows it, the run raises that same failure, and when it is the
\* run's first failure there was one attempt, no sleep and no notification.
C1_QuotaNeverRetried ==
    \A i \in 1..Len(outcomes) :
        (i > run_base /\ IsQuotaFailure(outcomes[i])) =>
            /\ i = Len(outcomes)
            /\ Len(invoked) = i
            /\ pc \in {"exec_raised", "done"}
            /\ exec_result = Raised(outcomes[i].exc)
            /\ (i = run_base + 1 =>
                    /\ RunCalls = 1
                    /\ run_sleeps = <<>>
                    /\ run_notes = <<>>)

C1_Witness ==
    /\ pc = "exec_raised"
    /\ max_attempts >= 2
    /\ RunCalls = 1
    /\ Len(RunOutcomes) = 1
    /\ IsQuotaFailure(RunOutcomes[1])
    /\ RunOutcomes[1].exc.status_code = 503

\* C2: a run whose attempts all fail transiently makes max_attempts calls,
\* sleeps max_attempts - 1 times with delays d, d*f, ..., d*f^(N-2), and then
\* raises the last failure; the sleep after attempt k is d*f^(k-1).
C2_TransientExhaustsAttempts ==
    /\ (pc \in {"loop", "running", "sleeping"} \/ ExecDone) =>
            run_sleeps = BackoffDelays(Len(run_sleeps))
    /\ (pc = "sleeping") => run_sleeps[attempt] = initial_delay_s * Pow(backoff_factor, attempt - 1)
    /\ (/\ ExecDone
        /\ RunOutcomes # <<>>
        /\ \A i \in 1..Len(RunOutcomes) : IsTransientFailure(RunOutcomes[i])) =>
            /\ RunCalls = max_attempts
            /\ Len(RunOutcomes) = max_attempts
            /\ run_sleeps = BackoffDelays(max_attempts - 1)
            /\ pc = "exec_raised"
            /\ exec_result = Raised(RunOutcomes[max_attempts].exc)

C2_Witness ==
    /\ pc = "exec_raised"
    /\ max_attempts = 3
    /\ backoff_factor = 3
    /\ Len(RunOutcomes) = 3
    /\ \A i \in 1..3 : IsTransientFailure(RunOutcomes[i])
    /\ Len(run_sleeps) = 2

\* C3: a Fatal failure ends its executor run at once: no attempt, sleep or
\* notification follows it and the run raises that same failure.
C3_FatalNeverRetried ==
    \A i \in 1..Len(outcomes) :
        (i > run_base /\ IsFatalFailure(outcomes[i])) =>
            /\ i = Len(outcomes)
            /\ Len(invoked) = i
            /\ pc \in {"exec_raised", "start", "done"}
            /\ exec_result = Raised(outcomes[i].exc)
            /\ Len(run_sleeps) = i - run_base - 1
            /\ Len(run_notes) = (IF on_retry = "none" THEN 0 ELSE i - run_base - 1)
            /\ (i = run_base + 1 => RunCalls = 1)

C3_Witness ==
    /\ pc = "exec_raised"
    /\ max_attempts >= 2
    /\ RunCalls = 1
    /\ Len(RunOutcomes) = 1
    /\ IsFatalFailure(RunOutcomes[1])

\* C4: a run whose attempt k succeeds returns that attempt's text at once,
\* after k calls and k - 1 sleeps (all earlier attempts failed transiently),
\* and nothing is invoked, slept or notified afterwards.
C4_SuccessReturnsImmediately ==
    \A i \in 1..Len(outcomes) :
        (i > run_base /\ outcomes[i].ok) =>
            LET k == i - run_base IN
            /\ i = Len(outcomes)
            /\ Len(invoked) = i
            /\ k <= max_attempts
            /\ pc \in {"exec_returned", "done"}
            /\ exec_result = Returned(final_text)
            /\ outcomes[i].text = final_text
            /\ \A j \in (run_base + 1)..(i - 1) : IsTransientFailure(outcomes[j])
            /\ Len(run_sleeps) = k - 1
            /\ Len(run_notes) = (IF on_retry = "none" THEN 0 ELSE k - 1)

C4_Witness ==
    /\ pc = "exec_returned"
    /\ RunCalls = 2
    /\ max_attempts = 3
    /\ Len(run_sleeps) = 1
    /\ exec_result.text = "B"

\* C6: a quota-exhausted failure of any candidate ends the cascade: nothing is
\* invoked after it, no later candidate is started, and the cascade raises
\* that failure, which is still recognisable as quota-exhausted.
C6_QuotaAbortsCascade ==
    \A i \in 1..Len(outcomes) :
        IsQuotaFailure(outcomes[i]) =>
            /\ Len(invoked) = i
            /\ candidates[ci] = outcomes[i].model
            /\ pc \in {"exec_raised", "done"}
            /\ \A c \in (ci + 1)..Len(candidates) :
                   \A j \in 1..Len(invoked) : invoked[j].model # candidates[c]
            /\ (pc = "done" =>
                    /\ result = Raised(outcomes[i].exc)
                    /\ _is_quota_exhausted_error(result.exc))

C6_Witness ==
    /\ pc = "done"
    /\ Len(candidates) = 2
    /\ Len(outcomes) = 1
    /\ IsQuotaFailure(outcomes[1])
    /\ invoked = <<[model |-> <<"m1">>, attempt |-> 1]>>
    /\ result.kind = "raised"

\* C7: candidates are invoked in list order, a later one only after the one
\* before it raised a failure that ends its run, and nothing after a success.
\* Scenario C: primary m1 always fails transiently, fallback m2 succeeds at
\* once: m1 is invoked max_attempts times, then m2 once, and the cascade
\* returns m2's text.
ModelM1 == <<"m1">>
ModelM2 == <<"m2">>

CandIdx(m) == CHOOSE k \in 1..Len(candidates) : candidates[k] = m

C7_CascadeInListOrder ==
    /\ \A j \in 1..Len(invoked) : InList(invoked[j].model, candidates)
    /\ \A j \in 2..Len(invoked) :
          \/ /\ invoked[j].model = invoked[j - 1].model
             /\ invoked[j].attempt = invoked[j - 1].attempt + 1
          \/ /\ CandIdx(invoked[j].model) = CandIdx(invoked[j - 1].model) + 1
             /\ invoked[j].attempt = 1
             /\ ~outcomes[j - 1].ok
             /\ \/ IsFatalFailure(outcomes[j - 1])
                \/ /\ IsTransientFailure(outcomes[j - 1])
                   /\ invoked[j - 1].attempt = max_attempts
    /\ (Len(invoked) >= 1) => invoked[1] = [model |-> candidates[1], attempt |-> 1]
    /\ (/\ pc = "done"
        /\ env_primary = EnvVal(<<" ", "m1", " ">>)
        /\ env_fallback = EnvVal(<<"m2">>)
        /\ \A i \in 1..Len(outcomes) :
              /\ outcomes[i].model = ModelM1 => IsTransientFailure(outcomes[i])
              /\ outcomes[i].model = ModelM2 => outcomes[i].ok) =>
            /\ invoked = [j \in 1..(max_attempts + 1) |->
                            IF j <= max_attempts
                            THEN [model |-> ModelM1, attempt |-> j]
                            ELSE [model |-> ModelM2, attempt |-> 1]]
            /\ result = Returned(outcomes[max_attempts + 1].text)

C7_Witness ==
    /\ pc = "done"
    /\ max_attempts = 3
    /\ Len(invoked) = 4
    /\ invoked[3].model = ModelM1
    /\ invoked[4].model = ModelM2
    /\ result = Returned("A")

ClassIs(e, c) == HandlerClass(TRUE, e) = c

\* C8: search_places does not raise when the model call ends in a
\* quota-exhausted or transient failure: it returns a message instead.
C8_SearchNeverRaisesOnQuotaOrOverload ==
    (/\ s_pc = "idle"
     /\ entry \in {"main", "agent"}
     /\ model_failure # NoExc
     /\ \/ ClassIs(model_failure, "QuotaExhausted")
        \/ ClassIs(model_failure, "TransientRetryable")) =>
        s_result.kind = "returned"

\* C9: two resolutions of the same (requesterId, non-empty topic) on a
\* working durable store give the same session id; the second retrieves the
\* existing session (createdNew false), the first creates it (createdNew
\* true) when the store did not hold it.
C9_ResolveIdempotent ==
    \A i, j \in 1..Len(handles) :
        (/\ i < j
         /\ handles[i].entry = "core" /\ handles[j].entry = "core"
         /\ handles[i].user = handles[j].user
         /\ handles[i].topic = handles[j].topic
         /\ Truthy(handles[i].topic)
         /\ handles[i].service = "database" /\ handles[j].service = "database"
         /\ ~handles[i].fault /\ ~handles[j].fault) =>
            /\ handles[i].kind = "returned"
            /\ handles[j].kind = "returned"
            /\ handles[i].id = handles[j].id
            /\ handles[j].created_new = FALSE
            /\ handles[j].session = SessionKey(AppName, handles[j].user, handles[i].id)
            /\ handles[i].session = handles[j].session
            /\ (~handles[i].existed => handles[i].created_new = TRUE)

C9_Witness ==
    /\ Len(handles) = 2
    /\ handles[1].entry = "core" /\ handles[2].entry = "core"
    /\ handles[1].user = <<"u1">> /\ handles[2].user = <<"u1">>
    /\ handles[1].topic = TopicOf(<<"trip">>) /\ handles[2].topic = TopicOf(<<"trip">>)
    /\ handles[1].service = "database" /\ handles[2].service = "database"
    /\ ~handles[1].fault /\ ~handles[2].fault
    /\ handles[1].created_new
    /\ ~handles[2].created_new
    /\ handles[2].get_called

\* C10: two topic-less requests never get the same session id, and a
\* topic-less request never finds its session in the store.
C10_TopiclessIdsDistinct ==
    \A i, j \in 1..Len(handles) :
        (/\ i # j
         /\ ~Truthy(handles[i].topic)
         /\ ~Truthy(handles[j].topic)) =>
            /\ handles[i].id # handles[j].id
            /\ ~handles[i].existed
            /\ (handles[i].session # NoSession => handles[i].created_new)

C10_Witness ==
    /\ Len(handles) = 2
    /\ handles[1].user = handles[2].user
    /\ handles[1].topic = NoTopic /\ handles[2].topic = NoTopic
    /\ handles[1].entry = "core" /\ handles[2].entry = "main"
    /\ handles[1].kind = "returned" /\ handles[2].kind = "returned"

\* C11: two different (requesterId, topic) pairs never derive the same
\* session id, and an id derived from a (requesterId, topic) pair never
\* equals the id generated for a topic-less request.
C11_IdsCollisionFree ==
    call_pc = "returned" =>
        LET a == call_in[1]
            b == call_in[2]
        IN  /\ (/\ Truthy(a.topic) /\ Truthy(b.topic)
                /\ <<a.user, a.topic.val>> # <<b.user, b.topic.val>>) =>
                   call_out[1] # call_out[2]
            /\ (Truthy(a.topic) /\ ~Truthy(b.topic)) => call_out[1] # call_out[2]

\* the request has built its stores
ServicesBuilt == entry # "none" /\ s_pc # "init"

\* C12: a request without a topic (absent or empty) never constructs the
\* durable store (using_database false, no db_error), gets its session from
\* create_session alone and never calls get_session.
C12_TopiclessEphemeralCreateOnly ==
    /\ (ServicesBuilt /\ ~Truthy(topic)) =>
          /\ session_service = "memory"
          /\ ~using_database
          /\ db_error = NoExc
          /\ ~get_called
          /\ create_exc = NoExc
          /\ (s_pc \in {"srun", "idle"} => created_new /\ session = Key)
    /\ \A i \in 1..Len(handles) :
          ~Truthy(handles[i].topic) =>
              /\ handles[i].service = "memory"
              /\ ~handles[i].get_called
              /\ handles[i].created_new

C12_Witness ==
    /\ Len(handles) = 2
    /\ handles[1].entry = "core" /\ handles[1].topic = TopicOf(<<>>)
    /\ handles[2].entry = "main" /\ handles[2].topic = TopicOf(<<>>)
    /\ handles[1].created_new /\ handles[2].created_new
    /\ handles[1].kind = "returned" /\ handles[2].kind = "returned"

\* C13: with a topic, a durable store whose construction raises makes
\* initialization fall back to the ephemeral store without raising
\* (using_database false, the exception kept as db_error); the request
\* creates its session there and completes.  using_database is true only
\* for a topic whose durable store was constructed.
C13_ConstructionFailureDegrades ==
    /\ using_database => (Truthy(topic) /\ session_service = "database")
    /\ db_error # NoExc =>
          (Truthy(topic) /\ session_service = "memory" /\ ~using_database)
    /\ (ServicesBuilt /\ Truthy(topic) /\ session_service = "memory") =>
          /\ entry = "core" => db_error # NoExc
          /\ ~get_called
          /\ create_exc = NoExc
          /\ (s_pc \in {"srun", "idle"} => created_new /\ session = Key)
          /\ (s_pc = "idle" /\ entry = "core") => s_result = Returned("session")

C13_Witness ==
    /\ s_pc = "idle"
    /\ entry = "core"
    /\ Truthy(topic)
    /\ db_error # NoExc
    /\ session_service = "memory"
    /\ created_new
    /\ s_result.kind = "returned"

\* C14: when create_or_retrieve_session returns, the flag is true iff the
\* session came from a successful create_session and false iff it came
\* from get_session; get_session is called only after create_session failed
\* with a recoverable error, never after it succeeded.
C14_FlagTellsCreatedOrRetrieved ==
    /\ (entry = "core" /\ s_pc = "idle" /\ s_result.kind = "returned") =>
          /\ created_new = ~get_called
          /\ created_new = (create_exc = NoExc)
          /\ created_new => session = Key
          /\ ~created_new => session = GetValue
    /\ (entry = "core" /\ get_called) =>
          /\ create_exc # NoExc
          /\ create_exc.type \in RecoverableClasses
    /\ \A i \in 1..Len(handles) :
          (handles[i].entry = "core" /\ handles[i].kind = "returned") =>
              handles[i].created_new = ~handles[i].get_called

C14_Witness ==
    /\ Len(handles) = 2
    /\ handles[1].kind = "returned"
    /\ handles[1].created_new
    /\ s_pc = "idle"
    /\ entry = "core"
    /\ s_result.kind = "returned"
    /\ create_exc = AlreadyExistsError
    /\ get_called
    /\ ~created_new

\* C15: when create_session fails and the fallback get_session fails too,
\* the request ends with the wrapped error "Failed to create or retrieve
\* session" that names the failure of get_session, before any call of the
\* remote model.
C15_DoubleFailureRaisesWrapped ==
    (s_pc = "idle" /\ create_exc # NoExc /\ get_exc # NoExc) =>
        /\ s_result.kind = "raised"
        /\ s_result.exc.type = "RuntimeError"
        /\ "Failed to create or retrieve session" \in s_result.exc.msg
        /\ get_exc.msg \subseteq s_result.exc.msg
        /\ model_failure = NoExc
        /\ sp_final_text = ""

\* the text of an event: the text of the first part of its content
EventText(ev) == IF ev.parts THEN ev.text ELSE ""

Qualifies(ev) == ev.final /\ EventText(ev) # "" /\ EventText(ev) # "None"

\* the text of the last qualifying event of a stream, "" when there is none
RECURSIVE LastQualifying(_)
LastQualifying(st) ==
    IF st = <<>> THEN ""
    ELSE IF Qualifies(st[Len(st)]) THEN EventText(st[Len(st)])
    ELSE LastQualifying(SubSeq(st, 1, Len(st) - 1))

\* C16: the executor returns the text of the last event of the attempt that
\* is turn-final and has a non-empty text other than "None"; later events
\* that do not qualify never overwrite it; with no such event it returns ""
\* and raises nothing.
C16_ReturnsLastQualifyingText ==
    keep_seen =>
        /\ pc = "running" => final_text = LastQualifying(seen)
        /\ pc = "exec_returned" => exec_result = Returned(LastQualifying(seen))

C16_Witness ==
    /\ pc = "exec_returned"
    /\ seen = <<Event(TRUE, TRUE, "A"), Event(TRUE, TRUE, "None")>>
    /\ exec_result = Returned("A")

\* C17: when add_session_to_memory fails after a run that succeeded, the
\* failure is swallowed: search_places returns the final text of the run.
C17_MemoryFailureSwallowed ==
    (s_pc = "idle" /\ memory_saved = "failed") =>
        /\ model_failure = NoExc
        /\ s_result = Returned(sp_final_text)
        /\ handles[Len(handles)].kind = "returned"

C17_Witness ==
    /\ s_pc = "idle"
    /\ entry = "main"
    /\ memory_saved = "failed"
    /\ sp_final_text = "A"
    /\ s_result = Returned("A")

\* the score the claim gives a distance d >= 0 (in tenths of a kilometre)
ScoreOf(d) ==
    IF d <= 10 THEN 10 ELSE IF d <= 30 THEN 8 ELSE IF d <= 50 THEN 6
    ELSE IF d <= 100 THEN 4 ELSE 2

\* C18: calculate_distance_score returns status "error" with an
\* error_message and no score for a negative distance, and status "success"
\* with score 10, 8, 6, 4 or 2 (limits 1, 3, 5, 10 km, inclusive) otherwise;
\* the score never grows with the distance; the three copies agree.
C18_DistanceScore ==
    call_pc = "returned" =>
        /\ \A i \in 1..2 :
              LET d == call_in[i]
                  r == call_out.tools[i]
              IN  /\ d < 0 => /\ r.status = "error"
                              /\ "error_message" \in DOMAIN r
                              /\ "score" \notin DOMAIN r
                  /\ d >= 0 => /\ r.status = "success"
                               /\ r.score = ScoreOf(d)
                  /\ call_out.main[i] = r
                  /\ call_out.agent[i] = r
        /\ (0 <= call_in[1] /\ call_in[1] <= call_in[2]) =>
              call_out.tools[1].score >= call_out.tools[2].score

C18_Witness ==
    /\ call_pc = "returned"
    /\ call_in = <<10, 101>>
    /\ call_out.tools[1].score = 10
    /\ call_out.main[2].score = 2

\* the three groups of related terms
RelatedGroups ==
    { {<<"restaurant">>, <<"cafe">>, <<"coffee">>, <<"bar">>, <<"food">>},
      {<<"museum">>, <<"gallery">>, <<"theater">>, <<"art">>},
      {<<"park">>, <<"garden">>, <<"hiking">>, <<"beach">>} }

DirectMatch(c, p) == IsSubstr(c, p) \/ IsSubstr(p, c)

RelatedMatch(c, p) ==
    \E g \in RelatedGroups : c \in g /\ \E term \in g : IsSubstr(term, p)

C20_IndependentBudgets ==
    /\ \A k \in 1..Len(invoked) :
          (k = 1 \/ invoked[k].model # invoked[k - 1].model) => invoked[k].attempt = 1
    /\ (pc = "loop" /\ attempt = 0) => delay = initial_delay_s
    /\ run_sleeps # <<>> => run_sleeps[1] = initial_delay_s
    /\ (pc = "done" /\ \A i \in 1..Len(outcomes) : IsTransientFailure(outcomes[i])) =>
          /\ Len(invoked) = Len(candidates) * max_attempts
          /\ \A c \in 1..Len(candidates) : \A a \in 1..max_attempts :
                invoked[(c - 1) * max_attempts + a] =
                    [model |-> candidates[c], attempt |-> a]

C20_Witness ==
    /\ pc = "done"
    /\ Len(candidates) = 2
    /\ max_attempts = 3
    /\ initial_delay_s = 2
    /\ backoff_factor = 3
    /\ Len(invoked) = 6
    /\ \A i \in 1..Len(outcomes) : IsTransientFailure(outcomes[i])
    /\ run_base = 3
    /\ run_sleeps = <<2, 6>>

\* the message of the failure, lower-cased, contains the needle
MsgContains(exc, needle) == In(needle, StrLower(exc))

\* the failure is of the known server-error type and carries status 503
ServerError503(exc) ==
    genai_errors /\ exc.type = "ServerError" /\ exc.status_code = 503

\* C21: a failure that is not quota-exhausted is TransientRetryable exactly
\* when its lower-cased message contains "503" with "overloaded" or
\* "unavailable", or contains "the model is overloaded", or it is a
\* ServerError with status code 503; every other such failure is Fatal; the
\* class is a function of type, status code and message.
C21_ClassifierRule ==
    cls_pc = "classified" =>
        /\ cls_quota = _is_quota_exhausted_error(cls_exc)
        /\ ~cls_quota =>
              /\ cls_transient =
                    (\/ /\ MsgContains(cls_exc, "503")
                        /\ \/ MsgContains(cls_exc, "overloaded")
                           \/ MsgContains(cls_exc, "unavailable")
                     \/ MsgContains(cls_exc, "the model is overloaded")
                     \/ ServerError503(cls_exc))
              /\ ClassOf(cls_exc) = IF cls_transient THEN "TransientRetryable" ELSE "Fatal"
        /\ cls_quota => ClassOf(cls_exc) = "QuotaExhausted"

C21_Witness ==
    /\ cls_pc = "classified"
    /\ cls_exc = Exc("Exception", NoStatus, {"The model is overloaded"})
    /\ ~cls_quota
    /\ cls_transient

\* C22: with an observer, on_retry is called once before each backoff sleep
\* and at no other time, with (failed attempt, max_attempts, delay to be
\* slept): attempt k of a run has a call iff it failed transiently and was
\* not the last attempt, so there are as many calls as sleeps.
C22_ObserverOncePerSleep ==
    /\ on_retry = "none" => run_notes = <<>>
    /\ on_retry = "callback" =>
          /\ Len(run_notes) = Len(run_sleeps)
          /\ \A k \in 1..Len(run_notes) :
                run_notes[k] = <<k, max_attempts, run_sleeps[k]>>
          /\ \A k \in 1..Len(RunOutcomes) :
                (k <= Len(run_notes)) =
                    (IsTransientFailure(RunOutcomes[k]) /\ k < max_attempts)

C22_Witness ==
    /\ pc = "exec_raised"
    /\ on_retry = "callback"
    /\ max_attempts = 3
    /\ run_notes = << <<1, 3, 2>>, <<2, 3, 6>> >>
    /\ IsFatalFailure(RunOutcomes[3])

\* C23: the observer does not change what the executor does: whatever the
\* observer (none, returning, raising), a finished run is determined by the
\* outcomes of its calls: it ended on a success, a failure that is not
\* transient or the last attempt, it slept the backoff delays between the
\* attempts, and it returns the text or raises the failure of its last call.
C23_ObserverHasNoEffect ==
    ExecDone =>
        LET n == Len(RunOutcomes)
            last == RunOutcomes[n]
        IN  /\ n >= 1
            /\ last.ok \/ ~IsTransientFailure(last) \/ n = max_attempts
            /\ run_sleeps = BackoffDelays(n - 1)
            /\ exec_result = IF last.ok THEN Returned(last.text) ELSE Raised(last.exc)

\* C24: the session is committed to the memory store only for a request
\* with a topic whose session store is the durable one: never for a request
\* without topic, never for one that fell back to the in-memory store.
C24_MemoryCommitOnlyWhenDurable ==
    memory_saved # "no" => (Truthy(topic) /\ session_service = "database")

\* a setting is blank: the empty string or blanks only
Blank(e) == e.set /\ \A i \in 1..Len(e.val) : e.val[i] = " "

\* the setting without the blanks around it, the default when it is unset
Configured(e, default) ==
    IF e.set
    THEN SubSeq(e.val,
                CHOOSE i \in 1..Len(e.val) + 1 :
                    /\ \A j \in 1..(i - 1) : e.val[j] = " "
                    /\ i <= Len(e.val) => e.val[i] # " ",
                CHOOSE i \in 0..Len(e.val) :
                    /\ \A j \in (i + 1)..Len(e.val) : e.val[j] = " "
                    /\ i >= 1 => e.val[i] # " ")
    ELSE default

\* C25: for every setting of GEMINI_MODEL and GEMINI_FALLBACK_MODEL,
\* _get_model_candidates returns a non-empty list without duplicates and
\* without an empty identifier; its first element is the stripped primary,
\* or the built-in default when the primary is blank; the stripped fallback
\* follows iff it is not blank and differs from the first element.
C25_CandidatesWellFormed ==
    call_pc = "returned" =>
        LET primary == Configured(call_in[1], DefaultPrimary)
            fallback == Configured(call_in[2], DefaultFallback)
            first == IF Blank(call_in[1]) THEN DefaultPrimary ELSE primary
        IN  /\ Len(call_out) \in {1, 2}
            /\ \A i \in 1..Len(call_out) : call_out[i] # <<>>
            /\ \A i, j \in 1..Len(call_out) : i # j => call_out[i] # call_out[j]
            /\ call_out[1] = first
            /\ (Len(call_out) = 2) = (~Blank(call_in[2]) /\ fallback # first)
            /\ Len(call_out) = 2 => call_out[2] = fallback

C25_Witness ==
    /\ call_pc = "returned"
    /\ call_in = <<EnvVal(<<" ">>), EnvVal(<<" ", "m2">>)>>
    /\ call_out = <<DefaultPrimary, <<"m2">>>>

\* C26: a cancellation while the stream is consumed or a backoff sleep is
\* in progress leaves the executor as CancelledError, neither classified nor
\* retried; afterwards there is no attempt, no sleep, no observer call and
\* no text is returned.
C26_CancellationPropagates ==
    /\ [](cancelled =>
            /\ pc = "cancelled"
            /\ exec_result = Raised(CancelledError)
            /\ result = NoResult
            /\ last_exc # CancelledError
            /\ \A i \in 1..Len(outcomes) : outcomes[i].exc # CancelledError)
    /\ [][cancelled => UNCHANGED <<invoked, outcomes, run_sleeps, run_notes,
                                   exec_result, result>>]_vars

C26_Witness ==
    /\ cancelled
    /\ pc = "cancelled"
    /\ attempt = 2
    /\ run_sleeps = <<1, 3>>
    /\ Len(outcomes) = 2

\* C28: the executor returns only text of the attempt that completed: text
\* a failed attempt had collected is reset when the next attempt starts and
\* is never returned.
C28_TextOnlyFromCompletedAttempt ==
    keep_seen =>
        /\ (pc = "running" /\ seen = <<>>) => final_text = ""
        /\ pc = "exec_returned" =>
              \/ exec_result.text = ""
              \/ \E i \in 1..Len(seen) :
                    Qualifies(seen[i]) /\ EventText(seen[i]) = exec_result.text

C28_Witness ==
    /\ pc = "exec_returned"
    /\ discarded = <<"A">>
    /\ seen = <<Event(TRUE, TRUE, "")>>
    /\ exec_result = Returned("")

\* C27: when create_or_retrieve_session returns, the returned session is a
\* session of the store and never the absent value, also when create_session
\* failed with a recoverable error and get_session found no session.
C27_ReturnedSessionPresent ==
    (entry = "core" /\ s_pc = "idle" /\ s_result.kind = "returned") =>
        /\ session # NoSession
        /\ session \in Contents

\* C29: a failure of create_session that is not a value, runtime or
\* connection error leaves create_or_retrieve_session unchanged and
\* get_session is not called.
C29_FallbackOnlyForRecoverable ==
    (entry = "core" /\ s_pc = "idle" /\ create_exc # NoExc
        /\ create_exc.type \notin RecoverableClasses) =>
        /\ ~get_called
        /\ get_exc = NoExc
        /\ s_result = Raised(create_exc)
        /\ session = NoSession

C29_Witness ==
    /\ entry = "core"
    /\ s_pc = "idle"
    /\ session_service = "database"
    /\ create_exc.type = "OperationalError"
    /\ s_result.kind = "raised"
    /\ s_result.exc.type = "OperationalError"
    /\ ~get_called

\* C30: when every agent that started has completed, agent_start_times is
\* empty, also when a pipeline agent started before and completed after its
\* sub-agents, and agent_count is the number of agent starts.
C30_StartsPairedWithCompletions ==
    (agent_starts > 0 /\ agents_running = <<>>) =>
        /\ agent_start_times = {}
        /\ agent_count = agent_starts

====
